---- MODULE Spec2Model ----
(***************************************************************************)
(* money-rag: CSV ingestion, merchant enrichment, vector indexing          *)
(* (src/money_rag.py, class MoneyRAG) and the read-only SQL tool           *)
(* (src/mcp_sql_server.py, query_database).                                *)
(***************************************************************************)
EXTENDS Integers, Sequences, FiniteSets, TLC

\* ------------------------------------------------------------------ bounds
\* Longest csv_paths list handed to one setup_session call.
MaxPaths == 3
\* Capacity of the transactions table: setup_session is not started when its
\* files would take the table beyond this many rows.
MaxRows == 6

\* Longest query handed to query_database, in pieces of QueryPieces.
MaxPieces == 3

\* Number of chat calls made on one MoneyRAG object.
MaxChats == 2

\* ------------------------------------------------------- program constants
\* asyncio.Semaphore(5)
SemaphoreSlots == 5

None == "None"
Unknown == "Unknown"
NoError == "none"
\* ValueError("No transactions found in database. Please ingest CSV files first.")
EmptyCorpusError == "ValueError: No transactions found in database"
\* pandas.errors.DatabaseError: ... no such table: transactions
NoSuchTableError == "DatabaseError: no such table: transactions"
MappingError == "MappingError"
PersistenceError == "PersistenceError"
EmbeddingError == "EmbeddingError"

\* ------------------------------------------------------------------ inputs
\* The uploaded statements: file name -> rows (description, raw amount).
CsvFiles == {"chase.csv", "discover.csv", "empty.csv", "amex.csv"}

ReadCsv(f) ==
    CASE f = "chase.csv" ->
           << [description |-> "Starbucks", amount |-> -42],
              [description |-> "Starbucks", amount |-> 5],
              [description |-> "Walmart", amount |-> 0] >>
      [] f = "discover.csv" ->
           << [description |-> "Walmart", amount |-> 7],
              [description |-> "Shell", amount |-> -3],
              [description |-> "Walmart", amount |-> 12] >>
      [] f = "amex.csv" ->
           << [description |-> "Starbucks", amount |-> 4],
              [description |-> "Walmart", amount |-> -9],
              [description |-> "Shell", amount |-> 30],
              [description |-> "Costco", amount |-> -120],
              [description |-> "Netflix", amount |-> 15],
              [description |-> "Uber", amount |-> -11] >>
      [] OTHER -> << >>

\* What the schema-mapping completion may answer for "sign_convention"; the
\* JSON parser does not validate it, so a foreign value can come back too.
SignConventions ==
    {"spending_is_negative", "spending_is_positive", "payment_is_positive"}

\* The web search's answer for a description.
SearchTool(d) ==
    CASE d = "Starbucks" -> "coffee shop chain"
      [] d = "Walmart" -> "big-box retailer"
      [] d = "Shell" -> "gas station"
      [] d = "Costco" -> "warehouse club"
      [] d = "Netflix" -> "streaming service"
      [] OTHER -> "ride hailing"

\* What the user may have uploaded in one session: two short statements, or
\* a long statement and a file with a header row only.
UploadSets == {{"chase.csv", "discover.csv"}, {"amex.csv", "empty.csv"}}

\* All csv_paths lists of length 0..MaxPaths over the files in S.
PathLists(S) == UNION {[1..n -> S] : n \in 0..MaxPaths}

\* ----------------------------------------------------------------- helpers
RECURSIVE SumRows(_)
SumRows(paths) ==
    IF paths = << >> THEN 0 ELSE Len(ReadCsv(Head(paths))) + SumRows(Tail(paths))

\* The csv_paths lists per upload set, and the rows each list holds.
PathListsOf == [S \in UploadSets |-> PathLists(S)]
RowsOf == [paths \in UNION {PathLists(S) : S \in UploadSets} |-> SumRows(paths)]

Range(s) == {s[i] : i \in 1..Len(s)}

\* pandas Series.unique(): the distinct values in order of first appearance.
RECURSIVE Unique(_)
\* Mutant: the descriptions are not de-duplicated.
UniqueKeepsDuplicates(s) == s

Unique(s) ==
    IF s = << >> THEN << >>
    ELSE LET init == Unique(SubSeq(s, 1, Len(s) - 1))
             last == s[Len(s)]
         IN IF last \in Range(init) THEN init ELSE Append(init, last)

\* Mutant: the flip is keyed on the other convention.
NormalizeAmountFlipsPositive(raw, conv) ==
    IF conv = "spending_is_positive" THEN raw * (-1) ELSE raw

\* raw_amounts * -1 if sign_convention == "spending_is_negative" else raw_amounts
NormalizeAmount(raw, conv) ==
    IF conv = "spending_is_negative" THEN raw * (-1) ELSE raw

VARIABLES
    uploaded_files, \* the files the user uploaded (st.file_uploader)
    pc,             \* where setup_session is: idle, map, enrich, write, sync, init_agent
    csv_paths,      \* the csv_paths argument of the running setup_session
    file_idx,       \* position of the for loop in csv_paths
    mapping,        \* the schema mapping of the current file
    standard_df,    \* the normalized rows of the current file
    tasks,          \* the get_merchant_info tasks of the current batch
    sem,            \* value of the batch's semaphore
    desc_map,       \* description -> enrichment, the batch's result
    merchant_cache, \* self.merchant_cache
    transactions,   \* rows of the transactions table
    table_exists,   \* whether the transactions table has been created
    qdrant,         \* the vector collection "transactions"
    agent,          \* self.agent
    last_error,     \* exception the last setup_session raised to its caller
    ledger,         \* history: per persisted row, its raw amount and convention
    lookups,        \* history: external searches issued in the current batch
    cache0,         \* history: merchant_cache when the current batch started
    prev_count,     \* history: vector records held before the last rebuild
    aborted,        \* history: where in csv_paths the last setup_session raised
    server_db,      \* the transactions table of the database at DB_PATH
    sql_pc,         \* the SQL tool: idle, or called with query
    query,          \* the query argument of the running query_database call
    reply,          \* what the last query_database call did and gave back
    thread,         \* the messages the agent's checkpointer holds for "session_1"
    chats,          \* history: number of chat calls made on the object
    last_chat       \* history: what the last chat call was given and gave back

vars == << uploaded_files, pc, csv_paths, file_idx, mapping, standard_df, tasks, sem, desc_map,
           merchant_cache, transactions, table_exists, qdrant, agent,
           last_error, ledger, lookups, cache0, prev_count, aborted,
           server_db, sql_pc, query, reply, thread, chats, last_chat >>

sql_vars == << server_db, sql_pc, query, reply >>

chat_vars == << thread, chats, last_chat >>

session_pipeline_vars == << uploaded_files, pc, csv_paths, file_idx, mapping,
                            standard_df, tasks, sem, desc_map, merchant_cache,
                            transactions, table_exists, qdrant, agent,
                            last_error, ledger, lookups, cache0, prev_count,
                            aborted >>

session_vars == << uploaded_files, pc, csv_paths, file_idx, mapping, standard_df,
                   tasks, sem, desc_map, merchant_cache, transactions,
                   table_exists, qdrant, agent, last_error, ledger, lookups,
                   cache0, prev_count, aborted, chat_vars >>

NoMapping == [sign_convention |-> None]
EmptyMap == [d \in {} |-> ""]
NotAborted == [ingested |-> 0, skipped |-> 0]

NoReply == [statement |-> None, executed |-> FALSE, returned |-> None,
            raised |-> None]

NoChat == [query |-> None, returned |-> None, raised |-> None]

\* No agent has been created and chat has not been called.
NoConversation ==
    /\ thread = << >>
    /\ chats = 0
    /\ last_chat = NoChat

\* No query_database call is running and none has been made.
SqlToolIdle ==
    /\ sql_pc = "idle"
    /\ query = << >>
    /\ reply = NoReply

\* A MoneyRAG object after __init__, before any call.
SessionCreated(files) ==
    /\ uploaded_files = files
    /\ pc = "idle"
    /\ csv_paths = << >>
    /\ file_idx = 0
    /\ mapping = NoMapping
    /\ standard_df = << >>
    /\ tasks = << >>
    /\ sem = SemaphoreSlots
    /\ desc_map = EmptyMap
    /\ merchant_cache = EmptyMap
    /\ transactions = << >>
    /\ table_exists = FALSE
    /\ qdrant = [exists |-> FALSE, points |-> << >>]
    /\ agent = None
    /\ last_error = NoError
    /\ ledger = << >>
    /\ lookups = 0
    /\ cache0 = EmptyMap
    /\ prev_count = 0
    /\ aborted = NotAborted

Init ==
    /\ \E files \in UploadSets : SessionCreated(files)
    /\ server_db = [exists |-> FALSE, rows |-> << >>]
    /\ SqlToolIdle
    /\ NoConversation

\* --------------------------------------------------- MoneyRAG.setup_session
\* An exception leaves setup_session: nothing after the raising line runs,
\* and the call's locals are gone.
ResetLocals ==
    /\ csv_paths' = << >>
    /\ file_idx' = 0
    /\ mapping' = NoMapping
    /\ standard_df' = << >>
    /\ tasks' = << >>
    /\ sem' = SemaphoreSlots
    /\ desc_map' = EmptyMap
    /\ lookups' = 0
    /\ cache0' = EmptyMap

Raise(err) ==
    /\ pc' = "idle"
    /\ last_error' = err
    /\ prev_count' = 0
    /\ ResetLocals

\* Mutant: the for loop catches the exception and goes on to the next file.
ContinueLoop(err) ==
    /\ pc' = IF file_idx = Len(csv_paths) THEN "sync" ELSE "map"
    /\ last_error' = err
    /\ prev_count' = 0
    /\ csv_paths' = csv_paths
    /\ file_idx' = file_idx + 1
    /\ mapping' = NoMapping
    /\ standard_df' = << >>
    /\ tasks' = << >>
    /\ sem' = SemaphoreSlots
    /\ desc_map' = EmptyMap
    /\ lookups' = 0
    /\ cache0' = EmptyMap
    /\ aborted' = NotAborted

\* The exception leaves _ingest_csv inside the for loop: the files before
\* file_idx were ingested, the files after it are never reached.
RaiseInLoop(err) ==
    /\ Raise(err)
    /\ aborted' = [ingested |-> file_idx - 1, skipped |-> Len(csv_paths) - file_idx]

\* setup_session(csv_paths), called with some list of the uploaded files: the
\* for loop starts, or, with no paths, goes straight to the indexer.
SetupSession ==
    /\ pc = "idle"
    /\ \E paths \in PathListsOf[uploaded_files] :
          /\ Len(transactions) + RowsOf[paths] <= MaxRows
          /\ csv_paths' = paths
          /\ pc' = IF paths = << >> THEN "sync" ELSE "map"
    /\ file_idx' = 1
    /\ last_error' = NoError
    /\ aborted' = NotAborted
    /\ UNCHANGED << sql_vars, chat_vars, uploaded_files, mapping, standard_df, tasks, sem,
                    desc_map, merchant_cache, transactions, table_exists, qdrant,
                    agent, ledger, lookups, cache0, prev_count >>

\* ----------------------------------------------------- MoneyRAG._ingest_csv
\* The frame built from the file under the mapping: fresh ids, the mapped
\* description, the normalized amount, the source file; enriched_info is
\* filled in after the batch.
StandardDf(f, conv, first_id) ==
    LET df == ReadCsv(f)
    IN [i \in 1..Len(df) |->
          [id |-> first_id + i,
           description |-> df[i].description,
           amount |-> NormalizeAmount(df[i].amount, conv),
           source_file |-> f,
           enriched_info |-> ""]]

Descriptions(df) == [i \in 1..Len(df) |-> df[i].description]

\* The coroutines handed to asyncio.gather, one per unique description.
NewTasks(descs) ==
    [i \in 1..Len(descs) |->
        [description |-> descs[i], st |-> "new", result |-> "", failed |-> FALSE]]

\* The completion returned a mapping: the frame is built and the enrichment
\* batch is created (up to the await of asyncio.gather).
MapSchemaOk(conv) ==
    /\ pc = "map"
    /\ mapping' = [sign_convention |-> conv]
    /\ standard_df' = StandardDf(csv_paths[file_idx], conv, Len(transactions))
    /\ tasks' = NewTasks(Unique(Descriptions(ReadCsv(csv_paths[file_idx]))))
    /\ sem' = SemaphoreSlots
    /\ lookups' = 0
    /\ cache0' = merchant_cache
    /\ pc' = "enrich"
    /\ UNCHANGED << sql_vars, chat_vars, uploaded_files, csv_paths, file_idx, desc_map, merchant_cache, transactions,
                    table_exists, qdrant, agent, last_error, ledger, prev_count,
                    aborted >>

\* The completion is malformed, or a mapped column is missing or not numeric:
\* the exception leaves _ingest_csv and, uncaught, setup_session.
MapSchemaFail ==
    /\ pc = "map"
    /\ RaiseInLoop(MappingError)
    /\ UNCHANGED << sql_vars, chat_vars, uploaded_files, merchant_cache, transactions, table_exists, qdrant, agent,
                    ledger >>

\* ------------------------------------- _ingest_csv.get_merchant_info (task)
FirstIn(st) == CHOOSE i \in 1..Len(tasks) :
                  /\ tasks[i].st = st
                  /\ \A j \in 1..(i - 1) : tasks[j].st # st

Has(st) == \E i \in 1..Len(tasks) : tasks[i].st = st

\* if description in self.merchant_cache
IsCached(d, cache) == d \in DOMAIN cache

\* Mutant: the handler returns no value.
OnSearchFailureReturnsNothing(t, cache) ==
    [task |-> [t EXCEPT !.st = "done", !.result = "", !.failed = TRUE],
     cache |-> cache]

\* Mutant: the handler also stores "Unknown" in the cache.
OnSearchFailureCachesUnknown(t, cache) ==
    [task |-> [t EXCEPT !.st = "done", !.result = Unknown, !.failed = TRUE],
     cache |-> [d \in DOMAIN cache \cup {t.description} |->
                   IF d = t.description THEN Unknown ELSE cache[d]]]

\* except Exception: return "Unknown"
OnSearchFailure(t, cache) ==
    [task |-> [t EXCEPT !.st = "done", !.result = Unknown, !.failed = TRUE],
     cache |-> cache]

\* result = await search; self.merchant_cache[description] = result; return result
OnSearchResult(t, cache) ==
    LET result == SearchTool(t.description)
    IN [task |-> [t EXCEPT !.st = "done", !.result = result],
        cache |-> [d \in DOMAIN cache \cup {t.description} |->
                      IF d = t.description THEN result ELSE cache[d]]]

\* The event loop runs the first step of the next task, in creation order:
\* the cache check, then the semaphore (taken when free, else queued).
TaskStart ==
    /\ pc = "enrich"
    /\ Has("new")
    /\ LET i == FirstIn("new")
           d == tasks[i].description
       IN IF IsCached(d, merchant_cache)
          THEN /\ tasks' = [tasks EXCEPT ![i].st = "done",
                                         ![i].result = merchant_cache[d]]
               /\ UNCHANGED << sem, lookups >>
          ELSE IF sem > 0
          THEN /\ tasks' = [tasks EXCEPT ![i].st = "in_flight"]
               /\ sem' = sem - 1
               /\ lookups' = lookups + 1
          ELSE /\ tasks' = [tasks EXCEPT ![i].st = "waiting"]
               /\ UNCHANGED << sem, lookups >>
    /\ UNCHANGED << sql_vars, chat_vars, uploaded_files, pc, csv_paths, file_idx, mapping, standard_df, desc_map,
                    merchant_cache, transactions, table_exists, qdrant, agent,
                    last_error, ledger, cache0, prev_count,
                    aborted >>

\* A queued task is woken (first in, first out) and takes the freed slot.
TaskAcquire ==
    /\ pc = "enrich"
    /\ Has("waiting")
    /\ sem > 0
    /\ tasks' = [tasks EXCEPT ![FirstIn("waiting")].st = "in_flight"]
    /\ sem' = sem - 1
    /\ lookups' = lookups + 1
    /\ UNCHANGED << sql_vars, chat_vars, uploaded_files, pc, csv_paths, file_idx, mapping, standard_df, desc_map,
                    merchant_cache, transactions, table_exists, qdrant, agent,
                    last_error, ledger, cache0, prev_count,
                    aborted >>

\* The search of task i returns: cached, slot released.
TaskSucceed(i) ==
    /\ pc = "enrich"
    /\ tasks[i].st = "in_flight"
    /\ LET r == OnSearchResult(tasks[i], merchant_cache)
       IN /\ tasks' = [tasks EXCEPT ![i] = r.task]
          /\ merchant_cache' = r.cache
    /\ sem' = sem + 1
    /\ UNCHANGED << sql_vars, chat_vars, uploaded_files, pc, csv_paths, file_idx, mapping, standard_df, desc_map,
                    transactions, table_exists, qdrant, agent, last_error,
                    ledger, lookups, cache0, prev_count,
                    aborted >>

\* Mutant: the failing search leaves the block without releasing its slot.
TaskFailKeepsSlot(i) ==
    /\ pc = "enrich"
    /\ tasks[i].st = "in_flight"
    /\ LET r == OnSearchFailure(tasks[i], merchant_cache)
       IN /\ tasks' = [tasks EXCEPT ![i] = r.task]
          /\ merchant_cache' = r.cache
    /\ UNCHANGED << sql_vars, chat_vars, uploaded_files, pc, csv_paths, file_idx, mapping, standard_df, desc_map,
                    transactions, table_exists, qdrant, agent, last_error,
                    ledger, lookups, cache0, prev_count,
                    aborted, sem >>

\* The search of task i raises: handled inside the task, slot released.
TaskFail(i) ==
    /\ pc = "enrich"
    /\ tasks[i].st = "in_flight"
    /\ LET r == OnSearchFailure(tasks[i], merchant_cache)
       IN /\ tasks' = [tasks EXCEPT ![i] = r.task]
          /\ merchant_cache' = r.cache
    /\ sem' = sem + 1
    /\ UNCHANGED << sql_vars, chat_vars, uploaded_files, pc, csv_paths, file_idx, mapping, standard_df, desc_map,
                    transactions, table_exists, qdrant, agent, last_error,
                    ledger, lookups, cache0, prev_count,
                    aborted >>

\* dict(zip(keys, vals)): a repeated key keeps its last value.
Zip(keys, vals) ==
    [k \in Range(keys) |->
        vals[CHOOSE i \in 1..Len(keys) :
                /\ keys[i] = k
                /\ \A j \in (i + 1)..Len(keys) : keys[j] # k]]

\* standard_df['description'].map(desc_map).fillna("")
WithEnrichment(df, dmap) ==
    [i \in 1..Len(df) |->
        [df[i] EXCEPT !.enriched_info =
            IF df[i].description \in DOMAIN dmap THEN dmap[df[i].description]
            ELSE ""]]

\* asyncio.gather returns once every task is done; desc_map and the
\* enriched_info column are built from its results.
GatherDone ==
    /\ pc = "enrich"
    /\ \A i \in 1..Len(tasks) : tasks[i].st = "done"
    /\ LET dm == Zip([i \in 1..Len(tasks) |-> tasks[i].description],
                     [i \in 1..Len(tasks) |-> tasks[i].result])
       IN /\ desc_map' = dm
          /\ standard_df' = WithEnrichment(standard_df, dm)
    /\ pc' = "write"
    /\ UNCHANGED << sql_vars, chat_vars, uploaded_files, csv_paths, file_idx, mapping, tasks, sem, merchant_cache,
                    transactions, table_exists, qdrant, agent, last_error,
                    ledger, lookups, cache0, prev_count,
                    aborted >>

\* Mutant: if_exists="replace".
ToSqlReplace(table, df) == df

\* standard_df.to_sql("transactions", conn, if_exists="append", index=False)
ToSql(table, df) == table \o df

\* Mutant: after the first file's write the call goes straight to the indexer.
WriteOkThenSync ==
    /\ pc = "write"
    /\ transactions' = ToSql(transactions, standard_df)
    /\ table_exists' = TRUE
    /\ ledger' = ledger \o
          [i \in 1..Len(standard_df) |->
              [raw |-> ReadCsv(csv_paths[file_idx])[i].amount,
               sign_convention |-> mapping.sign_convention]]
    /\ file_idx' = file_idx + 1
    /\ pc' = "sync"
    /\ mapping' = NoMapping
    /\ standard_df' = << >>
    /\ tasks' = << >>
    /\ sem' = SemaphoreSlots
    /\ desc_map' = EmptyMap
    /\ lookups' = 0
    /\ cache0' = EmptyMap
    /\ UNCHANGED << sql_vars, chat_vars, uploaded_files, csv_paths, merchant_cache, qdrant, agent, last_error,
                    prev_count,
                    aborted >>

\* The write succeeds: _ingest_csv returns and the for loop moves on.
WriteOk ==
    /\ pc = "write"
    /\ transactions' = ToSql(transactions, standard_df)
    /\ table_exists' = TRUE
    /\ ledger' = ledger \o
          [i \in 1..Len(standard_df) |->
              [raw |-> ReadCsv(csv_paths[file_idx])[i].amount,
               sign_convention |-> mapping.sign_convention]]
    /\ file_idx' = file_idx + 1
    /\ pc' = IF file_idx = Len(csv_paths) THEN "sync" ELSE "map"
    /\ mapping' = NoMapping
    /\ standard_df' = << >>
    /\ tasks' = << >>
    /\ sem' = SemaphoreSlots
    /\ desc_map' = EmptyMap
    /\ lookups' = 0
    /\ cache0' = EmptyMap
    /\ UNCHANGED << sql_vars, chat_vars, uploaded_files, csv_paths, merchant_cache, qdrant, agent, last_error,
                    prev_count,
                    aborted >>

\* The write raises (rolled back): uncaught in _ingest_csv and setup_session.
WriteFail ==
    /\ pc = "write"
    /\ RaiseInLoop(PersistenceError)
    /\ UNCHANGED << sql_vars, chat_vars, uploaded_files, merchant_cache, transactions, table_exists, qdrant, agent,
                    ledger >>

\* Mutant: the existing collection is reused.
KeepCollection(q) == [exists |-> TRUE, points |-> q.points]

\* -------------------------------------------------- MoneyRAG._sync_to_qdrant
\* client.recreate_collection(...): the collection is dropped and created anew.
RecreateCollection(q) == [exists |-> TRUE, points |-> << >>]

\* vs.add_texts(texts, metadatas): one point per row of the frame, carrying
\* the row's id and amount as metadata.
AddTexts(q, df) ==
    [q EXCEPT !.points =
        q.points \o [i \in 1..Len(df) |-> [id |-> df[i].id, amount |-> df[i].amount]]]

\* read_sql_query fails when the table was never created; an empty frame
\* raises the ValueError. Either leaves setup_session before any collection
\* is touched.
SyncRaise ==
    /\ pc = "sync"
    /\ ~table_exists \/ transactions = << >>
    /\ Raise(IF ~table_exists THEN NoSuchTableError ELSE EmptyCorpusError)
    /\ UNCHANGED << sql_vars, chat_vars, uploaded_files, merchant_cache, transactions, table_exists, qdrant, agent,
                    ledger,
                    aborted >>

\* The probe embedding raises, before recreate_collection.
SyncEmbedFail ==
    /\ pc = "sync"
    /\ table_exists /\ transactions # << >>
    /\ Raise(EmbeddingError)
    /\ UNCHANGED << sql_vars, chat_vars, uploaded_files, merchant_cache, transactions, table_exists, qdrant, agent,
                    ledger,
                    aborted >>

\* add_texts raises (its embedding call fails), after recreate_collection.
SyncAddFail ==
    /\ pc = "sync"
    /\ table_exists /\ transactions # << >>
    /\ qdrant' = RecreateCollection(qdrant)
    /\ Raise(EmbeddingError)
    /\ UNCHANGED << sql_vars, chat_vars, uploaded_files, merchant_cache, transactions, table_exists, agent, ledger,
                    aborted >>

\* The indexer runs to its end and returns the vector store.
SyncOk ==
    /\ pc = "sync"
    /\ table_exists /\ transactions # << >>
    /\ qdrant' = AddTexts(RecreateCollection(qdrant), transactions)
    /\ prev_count' = Len(qdrant.points)
    /\ pc' = "init_agent"
    /\ UNCHANGED << sql_vars, chat_vars, uploaded_files, csv_paths, file_idx, mapping, standard_df, tasks, sem,
                    desc_map, merchant_cache, transactions, table_exists, agent,
                    last_error, ledger, lookups, cache0,
                    aborted >>

\* ------------------------------------------------------ MoneyRAG._init_agent
\* checkpointer=InMemorySaver(): a saver that holds no thread.
NewCheckpointer == << >>

\* self.agent = create_agent(...); setup_session returns.
InitAgent ==
    /\ pc = "init_agent"
    /\ agent' = "ready"
    /\ thread' = NewCheckpointer
    /\ pc' = "idle"
    /\ prev_count' = 0
    /\ ResetLocals
    /\ UNCHANGED << sql_vars, chats, last_chat, uploaded_files, merchant_cache, transactions, table_exists, qdrant,
                    last_error, ledger,
                    aborted >>

Next ==
    \/ SetupSession
    \/ \E conv \in SignConventions : MapSchemaOk(conv)
    \/ MapSchemaFail
    \/ TaskStart
    \/ TaskAcquire
    \/ \E i \in 1..Len(tasks) : TaskSucceed(i)
    \/ \E i \in 1..Len(tasks) : TaskFail(i)
    \/ GatherDone
    \/ WriteOk
    \/ WriteFail
    \/ SyncRaise
    \/ SyncEmbedFail
    \/ SyncAddFail
    \/ SyncOk
    \/ InitAgent

Spec == Init /\ [][Next]_vars

\* The event loop runs every task that is ready (a new task gets its first
\* step, a woken waiter takes the freed slot), and every search that was
\* started returns or raises.
EnrichFairness ==
    /\ WF_vars(TaskStart)
    /\ WF_vars(TaskAcquire)
    /\ \A i \in 1..MaxRows :
          WF_vars(i \in DOMAIN tasks /\ (TaskSucceed(i) \/ TaskFail(i)))

\* The caches a session can hold when a batch starts: the descriptions whose
\* search succeeded in earlier setup_session calls, each with its result.
Caches(files) ==
    LET known == UNION {Range(Descriptions(ReadCsv(f))) : f \in files}
    IN {[d \in S |-> SearchTool(d)] : S \in SUBSET known}

\* One enrichment batch: setup_session([f]) stands at the await of
\* asyncio.gather for its file, nothing is written yet.
InitEnrich ==
    /\ \E files \in UploadSets : \E f \in files : \E conv \in SignConventions :
       \E cache \in Caches(files) :
          /\ uploaded_files = files
          /\ csv_paths = << f >>
          /\ mapping = [sign_convention |-> conv]
          /\ standard_df = StandardDf(f, conv, 0)
          /\ tasks = NewTasks(Unique(Descriptions(ReadCsv(f))))
          /\ merchant_cache = cache
          /\ cache0 = cache
    /\ pc = "enrich"
    /\ file_idx = 1
    /\ sem = SemaphoreSlots
    /\ desc_map = EmptyMap
    /\ transactions = << >>
    /\ table_exists = FALSE
    /\ qdrant = [exists |-> FALSE, points |-> << >>]
    /\ agent = None
    /\ last_error = NoError
    /\ ledger = << >>
    /\ lookups = 0
    /\ prev_count = 0
    /\ aborted = NotAborted
    /\ server_db = [exists |-> FALSE, rows |-> << >>]
    /\ SqlToolIdle
    /\ NoConversation

NextEnrich ==
    \/ TaskStart
    \/ TaskAcquire
    \/ \E i \in 1..Len(tasks) : TaskSucceed(i)
    \/ \E i \in 1..Len(tasks) : TaskFail(i)
    \/ GatherDone

SpecEnrich == InitEnrich /\ [][NextEnrich]_vars /\ EnrichFairness

\* ------------------------------------------------------------ MoneyRAG.chat
AttributeError == "AttributeError: 'NoneType' object has no attribute 'ainvoke'"
AgentError == "exception raised by agent.ainvoke"

Questions == {"How much did I spend on coffee?"}

\* The content of the last message of the result: a string (given by its
\* lines), or a list of content blocks.
FinalContents ==
    {[type |-> "str", text |-> << "You spent 47.00 on coffee." >>],
     [type |-> "list",
      blocks |-> << [type |-> "text", text |-> << "You spent 47.00" >>],
                    [type |-> "tool_use", text |-> << "query_database" >>],
                    [type |-> "text", text |-> << "on coffee." >>] >>]}

\* "\n".join(parts), as the lines of the joined string.
RECURSIVE JoinLines(_)
JoinLines(parts) ==
    IF parts = << >> THEN << "" >>
    ELSE IF Len(parts) = 1 THEN Head(parts)
    ELSE Head(parts) \o JoinLines(Tail(parts))

\* The text parts of the blocks whose type is "text", in order.
RECURSIVE TextParts(_)
TextParts(blocks) ==
    IF blocks = << >> THEN << >>
    ELSE (IF Head(blocks).type = "text" THEN << Head(blocks).text >> ELSE << >>)
         \o TextParts(Tail(blocks))

\* The value chat returns for the content of the last message.
ExtractText(content) ==
    IF content.type = "list" THEN JoinLines(TextParts(content.blocks))
    ELSE content.text

UserMessage(q) == [role |-> "user", content |-> q]
AssistantMessage(c) == [role |-> "assistant", content |-> c]

\* chat(query) on an object whose setup_session has not yet reached
\* _init_agent: self.agent is None and the call raises.
ChatNoAgent ==
    /\ pc = "idle"
    /\ agent = None
    /\ chats < MaxChats
    /\ \E q \in Questions :
          last_chat' = [query |-> q, returned |-> None, raised |-> AttributeError]
    /\ chats' = chats + 1
    /\ UNCHANGED << sql_vars, session_pipeline_vars, thread >>

\* chat(query) returns: the agent ran the turn on thread "session_1", the
\* checkpointer holds the user message and the final answer after the
\* messages it held, and the text of the final answer is returned.
ChatOk ==
    /\ pc = "idle"
    /\ agent # None
    /\ chats < MaxChats
    /\ \E q \in Questions : \E c \in FinalContents :
          /\ thread' = thread \o << UserMessage(q), AssistantMessage(c) >>
          /\ last_chat' = [query |-> q, returned |-> ExtractText(c), raised |-> None]
    /\ chats' = chats + 1
    /\ UNCHANGED << sql_vars, session_pipeline_vars >>

\* agent.ainvoke raises (the completion or a tool call fails): the exception
\* leaves chat; the user message has or has not been saved by then.
ChatFail ==
    /\ pc = "idle"
    /\ agent # None
    /\ chats < MaxChats
    /\ \E q \in Questions :
          /\ thread' \in {thread, thread \o << UserMessage(q) >>}
          /\ last_chat' = [query |-> q, returned |-> None, raised |-> AgentError]
    /\ chats' = chats + 1
    /\ UNCHANGED << sql_vars, session_pipeline_vars >>

\* A session of the app: the uploaded statements are ingested, again and
\* again, and questions are asked in between. The statements hold no more
\* unique descriptions than the semaphore has slots, so no lookup queues.
InitChat ==
    /\ \E files \in UploadSets :
          /\ \A f \in files :
                Cardinality(Range(Descriptions(ReadCsv(f)))) <= SemaphoreSlots
          /\ SessionCreated(files)
    /\ server_db = [exists |-> FALSE, rows |-> << >>]
    /\ SqlToolIdle
    /\ NoConversation

NextChat ==
    \/ SetupSession
    \/ \E conv \in SignConventions : MapSchemaOk(conv)
    \/ MapSchemaFail
    \/ TaskStart
    \/ \E i \in 1..Len(tasks) : TaskSucceed(i)
    \/ \E i \in 1..Len(tasks) : TaskFail(i)
    \/ GatherDone
    \/ WriteOk
    \/ WriteFail
    \/ SyncRaise
    \/ SyncEmbedFail
    \/ SyncAddFail
    \/ SyncOk
    \/ InitAgent
    \/ ChatNoAgent
    \/ ChatOk
    \/ ChatFail

SpecChat == InitChat /\ [][NextChat]_vars

\* ------------------------------------------- mcp_sql_server.query_database
\* A query string is the sequence of its characters.
LowerCase == << "a", "b", "c", "d", "e", "f", "g", "h", "i", "j", "k", "l", "m", "n", "o", "p", "q", "r", "s", "t", "u", "v", "w", "x", "y", "z" >>
UpperCase == << "A", "B", "C", "D", "E", "F", "G", "H", "I", "J", "K", "L", "M", "N", "O", "P", "Q", "R", "S", "T", "U", "V", "W", "X", "Y", "Z" >>
Whitespace == {" ", "\t", "\n"}
\* A lone surrogate code point (U+D800), as a JSON "\ud800" escape gives it:
\* a character of a Python str that UTF-8 cannot encode.
LoneSurrogate == "U+D800"

\* str.upper(), character by character.
UpperChar(c) ==
    IF \E k \in 1..Len(LowerCase) : LowerCase[k] = c
    THEN UpperCase[CHOOSE k \in 1..Len(LowerCase) : LowerCase[k] = c]
    ELSE c

Upper(str) == [i \in 1..Len(str) |-> UpperChar(str[i])]

\* str.strip(): leading and trailing whitespace removed.
RECURSIVE LStrip(_)
LStrip(str) ==
    IF str # << >> /\ Head(str) \in Whitespace THEN LStrip(Tail(str)) ELSE str

RECURSIVE RStrip(_)
RStrip(str) ==
    IF str # << >> /\ str[Len(str)] \in Whitespace
    THEN RStrip(SubSeq(str, 1, Len(str) - 1))
    ELSE str

Strip(str) == RStrip(LStrip(str))

\* str.startswith(prefix)
StartsWith(str, prefix) ==
    /\ Len(str) >= Len(prefix)
    /\ SubSeq(str, 1, Len(prefix)) = prefix

\* word in str
Contains(str, word) ==
    \E i \in 1..(Len(str) - Len(word) + 1) :
        SubSeq(str, i, i + Len(word) - 1) = word

KwSelect == << "S", "E", "L", "E", "C", "T" >>
KwPragma == << "P", "R", "A", "G", "M", "A" >>
KwInsert == << "I", "N", "S", "E", "R", "T" >>
KwUpdate == << "U", "P", "D", "A", "T", "E" >>
KwDelete == << "D", "E", "L", "E", "T", "E" >>
KwDrop == << "D", "R", "O", "P" >>
KwAlter == << "A", "L", "T", "E", "R" >>
KwCreate == << "C", "R", "E", "A", "T", "E" >>
KwReplace == << "R", "E", "P", "L", "A", "C", "E" >>
KwTruncate == << "T", "R", "U", "N", "C", "A", "T", "E" >>

\* The pieces queries are put together from: keywords in both cases,
\* whitespace, a column whose name holds a keyword, statements that change
\* the database, a statement separator and an unencodable character.
PieceSpace == << " " >>
PieceNewline == << "\n" >>
PieceSelectUpper == << "S", "E", "L", "E", "C", "T" >>
PieceSelectLower == << "s", "e", "l", "e", "c", "t" >>
PiecePragma == << "p", "r", "a", "g", "m", "a", " ", "t", "a", "b", "l", "e", "_", "i", "n", "f", "o", "(", "t", ")" >>
PieceStar == << " ", "*", " ", "f", "r", "o", "m", " ", "t" >>
PieceCreatedAt == << " ", "c", "r", "e", "a", "t", "e", "d", "_", "a", "t", " ", "f", "r", "o", "m", " ", "t" >>
PieceWhere == << " ", "w", "h", "e", "r", "e", " ", "a", "m", "o", "u", "n", "t", " ", ">", " ", "0" >>
PieceSemicolon == << ";" >>
PieceDrop == << "D", "r", "o", "p", " ", "T", "a", "b", "l", "e", " ", "t" >>
PieceDelete == << "d", "e", "l", "e", "t", "e", " ", "f", "r", "o", "m", " ", "t" >>
PieceSurrogate == << LoneSurrogate >>

QueryPieces ==
    {PieceSpace, PieceNewline, PieceSelectUpper, PieceSelectLower, PiecePragma,
     PieceStar, PieceCreatedAt, PieceWhere, PieceSemicolon, PieceDrop,
     PieceDelete, PieceSurrogate}

RECURSIVE Concat(_)
Concat(parts) ==
    IF parts = << >> THEN << >> ELSE Head(parts) \o Concat(Tail(parts))

\* Every query of 1..MaxPieces pieces.
Queries ==
    UNION {{Concat(parts) : parts \in [1..n -> QueryPieces]} : n \in 1..MaxPieces}

\* The databases the tool may find at DB_PATH: no transactions table, an
\* empty one, one with rows.
ServerDbs ==
    {[exists |-> FALSE, rows |-> << >>],
     [exists |-> TRUE, rows |-> << >>],
     [exists |-> TRUE, rows |-> << [id |-> 1, amount |-> 42], [id |-> 2, amount |-> -10] >>]}

OnlySelectError == "Error: Only SELECT and PRAGMA queries are allowed"
ForbiddenError ==
    "Error: Query contains forbidden operation. Only SELECT queries allowed."
SqliteError == "Error: <sqlite3 message>"
NoResultsFound == "No results found"
ResultRows == "[(...), ...]"

\* The kind of statement SQLite sees: its first keyword, after leading
\* whitespace, in any case.
Statement(q) ==
    LET u == Upper(LStrip(q))
    IN CASE StartsWith(u, KwSelect) -> "SELECT"
         [] StartsWith(u, KwPragma) -> "PRAGMA"
         [] StartsWith(u, KwDrop) -> "DROP"
         [] StartsWith(u, KwDelete) -> "DELETE"
         [] OTHER -> "OTHER"

\* Something other than whitespace follows a semicolon: a second statement.
HasSecondStatement(q) ==
    \E i \in 1..Len(q) :
        /\ q[i] = ";"
        /\ \E j \in (i + 1)..Len(q) : q[j] \notin Whitespace

\* conn = sqlite3.connect(DB_PATH); cursor.execute(query); cursor.fetchall();
\* conn.close(): the outcomes of running q on db. A str with a lone surrogate
\* cannot be encoded for SQLite (UnicodeEncodeError); a second statement is
\* refused, with an sqlite3.Error (ProgrammingError) or, on older Pythons,
\* with sqlite3.Warning, which is not an sqlite3.Error. DROP TABLE commits by
\* itself; DELETE opens a transaction that the close, with no commit, rolls
\* back. A SELECT or PRAGMA gives rows, no rows, or an sqlite3.Error.
Execute(q, db) ==
    IF LoneSurrogate \in Range(q)
    THEN {[raises |-> "UnicodeEncodeError", rows |-> FALSE, db |-> db]}
    ELSE IF HasSecondStatement(q)
    THEN {[raises |-> "sqlite3.Error", rows |-> FALSE, db |-> db],
          [raises |-> "sqlite3.Warning", rows |-> FALSE, db |-> db]}
    ELSE IF Statement(q) = "DROP"
    THEN IF db.exists
         THEN {[raises |-> None, rows |-> FALSE,
                db |-> [exists |-> FALSE, rows |-> << >>]]}
         ELSE {[raises |-> "sqlite3.Error", rows |-> FALSE, db |-> db]}
    ELSE IF Statement(q) = "DELETE"
    THEN IF db.exists
         THEN {[raises |-> None, rows |-> FALSE, db |-> db]}
         ELSE {[raises |-> "sqlite3.Error", rows |-> FALSE, db |-> db]}
    ELSE IF Statement(q) \in {"SELECT", "PRAGMA"}
    THEN {[raises |-> "sqlite3.Error", rows |-> FALSE, db |-> db],
          [raises |-> None, rows |-> FALSE, db |-> db]}
         \cup (IF db.rows # << >>
               THEN {[raises |-> None, rows |-> TRUE, db |-> db]}
               ELSE {})
    ELSE {[raises |-> "sqlite3.Error", rows |-> FALSE, db |-> db]}

\* query_upper = query.strip().upper()
QueryUpper(q) == Upper(Strip(q))

\* query_upper.startswith("SELECT") or query_upper.startswith("PRAGMA")
StartsWithAllowed(query_upper) ==
    StartsWith(query_upper, KwSelect) \/ StartsWith(query_upper, KwPragma)

\* Mutant: the list lacks DROP and CREATE.
ForbiddenShort == {KwInsert, KwUpdate, KwDelete, KwAlter, KwReplace, KwTruncate}

\* forbidden = ["INSERT", "UPDATE", "DELETE", "DROP", "ALTER", "CREATE",
\*              "REPLACE", "TRUNCATE"]
Forbidden ==
    {KwInsert, KwUpdate, KwDelete, KwDrop, KwAlter, KwCreate, KwReplace,
     KwTruncate}

\* any(forbidden_word in query_upper for forbidden_word in forbidden)
ContainsForbidden(query_upper) ==
    \E forbidden_word \in Forbidden : Contains(query_upper, forbidden_word)

\* except sqlite3.Error as e: the exceptions the handler catches.
Caught(exc) == exc = "sqlite3.Error"

\* query_database(query) on db: what each way through the function does:
\* whether the query was executed, the string returned or the exception
\* that leaves the function, and the database afterwards.
QueryDatabaseOutcomes(q, db) ==
    IF ~StartsWithAllowed(QueryUpper(q))
    THEN {[executed |-> FALSE, returned |-> OnlySelectError, raised |-> None,
           db |-> db]}
    ELSE IF ContainsForbidden(QueryUpper(q))
    THEN {[executed |-> FALSE, returned |-> ForbiddenError, raised |-> None,
           db |-> db]}
    ELSE {IF o.raises # None
          THEN IF Caught(o.raises)
               THEN [executed |-> TRUE, returned |-> SqliteError,
                     raised |-> None, db |-> o.db]
               ELSE [executed |-> TRUE, returned |-> None,
                     raised |-> o.raises, db |-> o.db]
          ELSE [executed |-> TRUE,
                returned |-> IF o.rows THEN ResultRows ELSE NoResultsFound,
                raised |-> None, db |-> o.db]
          : o \in Execute(q, db)}

\* The agent calls the tool with some query.
CallTool ==
    /\ sql_pc = "idle"
    /\ sql_pc' = "called"
    /\ \E q \in Queries : query' = q
    /\ reply' = NoReply
    /\ UNCHANGED << session_vars, server_db >>

\* query_database runs, from its first line to its return or raise.
QueryDatabase ==
    /\ sql_pc = "called"
    /\ \E o \in QueryDatabaseOutcomes(query, server_db) :
          /\ reply' = [statement |-> Statement(query), executed |-> o.executed,
                       returned |-> o.returned, raised |-> o.raised]
          /\ server_db' = o.db
    /\ sql_pc' = "idle"
    /\ query' = << >>
    /\ UNCHANGED session_vars

InitSql ==
    /\ SessionCreated({"chase.csv", "discover.csv"})
    /\ server_db \in ServerDbs
    /\ SqlToolIdle
    /\ NoConversation

NextSql ==
    \/ CallTool
    \/ QueryDatabase

SpecSql == InitSql /\ [][NextSql]_vars

\* ------------------------------------------------------------------ claims
FileDescriptions == Range(Descriptions(ReadCsv(csv_paths[file_idx])))

\* C1: every persisted row holds -raw_amount when its file's mapping said
\* spending_is_negative and raw_amount when it said spending_is_positive; the
\* flip is applied once, so a raw spending entry (negative under the first
\* convention, positive under the second) is stored as a positive amount,
\* whatever files were ingested before.
C1_SignNormalization ==
    /\ Len(ledger) = Len(transactions)
    /\ \A i \in 1..Len(transactions) :
          LET raw == ledger[i].raw
              conv == ledger[i].sign_convention
              amount == transactions[i].amount
          IN /\ conv = "spending_is_negative" => amount = 0 - raw
             /\ conv = "spending_is_positive" => amount = raw
             /\ (conv = "spending_is_negative" /\ raw < 0) => amount > 0
             /\ (conv = "spending_is_positive" /\ raw > 0) => amount > 0

\* Rows of both conventions, each a spending entry, sit in the table together.
C1_Witness ==
    \E i, j \in 1..Len(transactions) :
        /\ ledger[i].sign_convention = "spending_is_negative" /\ ledger[i].raw < 0
        /\ ledger[j].sign_convention = "spending_is_positive" /\ ledger[j].raw > 0
        /\ transactions[i].source_file # transactions[j].source_file

\* C3: ingestion only appends: every step keeps the rows already in the table,
\* in place and with their field values, and a completed write adds exactly
\* the rows of the file being ingested, so the row count is the sum of the
\* per-file row counts.
C3_AppendOnly ==
    [][/\ Len(transactions') >= Len(transactions)
       /\ SubSeq(transactions', 1, Len(transactions)) = transactions
       /\ IF pc = "write" /\ pc' # "idle"
          THEN Len(transactions') =
                  Len(transactions) + Len(ReadCsv(csv_paths[file_idx]))
          ELSE transactions' = transactions]_vars

\* The same file has been ingested twice: its rows are there twice.
C3_Witness ==
    /\ Len(transactions) = 2 * Len(ReadCsv("chase.csv"))
    /\ \A i \in 1..Len(transactions) : transactions[i].source_file = "chase.csv"
    /\ \A i \in 1..Len(ReadCsv("chase.csv")) :
          transactions[i].description =
             transactions[i + Len(ReadCsv("chase.csv"))].description

\* C4: when a batch has completed, the external searches it issued number the
\* unique descriptions of the file that were not in the merchant cache when
\* the batch started, and a description that was in the cache got the cached
\* value without a search; while the batch runs the count never exceeds it.
C4_LookupsAreUniqueUncached ==
    pc \in {"enrich", "write"} =>
        LET uncached == {d \in FileDescriptions : d \notin DOMAIN cache0}
        IN /\ lookups <= Cardinality(uncached)
           /\ pc = "write" => lookups = Cardinality(uncached)
           /\ \A i \in 1..Len(tasks) :
                 (tasks[i].st = "done" /\ tasks[i].description \in DOMAIN cache0) =>
                     /\ tasks[i].result = cache0[tasks[i].description]
                     /\ ~tasks[i].failed

\* A batch over a file with a repeated description, one description cached
\* beforehand and one not, has completed.
C4_Witness ==
    /\ pc = "write"
    /\ Len(ReadCsv(csv_paths[file_idx])) > Cardinality(FileDescriptions)
    /\ \E d \in FileDescriptions : d \in DOMAIN cache0
    /\ \E d \in FileDescriptions : d \notin DOMAIN cache0
    /\ lookups > 0

\* The result of a completed batch: every task is done, desc_map covers the
\* unique descriptions of the file and nothing else, a failed search gives
\* "Unknown" and a successful one the search's answer.
BatchResultOk ==
    /\ \A i \in 1..Len(tasks) : tasks[i].st = "done"
    /\ DOMAIN desc_map = FileDescriptions
    /\ \A i \in 1..Len(tasks) :
          LET d == tasks[i].description
          IN /\ tasks[i].failed => desc_map[d] = Unknown
             /\ (~tasks[i].failed /\ d \notin DOMAIN cache0) =>
                   desc_map[d] = SearchTool(d)

\* C5: whatever subset of the searches of a batch fails, the batch does not
\* raise (it goes on, or completes) and, once complete, its mapping covers
\* exactly the unique descriptions, failed ones mapped to "Unknown" and
\* successful ones to their search result.
C5_BatchToleratesFailures ==
    [][pc = "enrich" =>
          /\ pc' \in {"enrich", "write"}
          /\ last_error' = NoError
          /\ pc' = "write" => BatchResultOk']_vars

\* A batch has completed in which one search failed and another succeeded.
C5_Witness ==
    /\ pc = "write"
    /\ \E i \in 1..Len(tasks) : tasks[i].failed
    /\ \E i \in 1..Len(tasks) :
          ~tasks[i].failed /\ tasks[i].description \notin DOMAIN cache0

\* The step in which the search of task i fails.
SearchFails(i) ==
    /\ pc = "enrich" /\ pc' = "enrich"
    /\ tasks[i].st = "in_flight"
    /\ tasks'[i].st = "done"
    /\ tasks'[i].failed

\* C6 as stated: a failed search leaves "Unknown" in the merchant cache for
\* its description.
C6_FailureIsCached ==
    [][\A i \in 1..Len(tasks) :
          SearchFails(i) =>
             /\ tasks[i].description \in DOMAIN merchant_cache'
             /\ merchant_cache'[tasks[i].description] = Unknown]_vars

\* C6 amended: a failed search gives "Unknown" to its batch and leaves the
\* merchant cache as it was, without an entry for the description; and a task
\* whose description is not in the cache is never answered from the cache, so
\* a later batch with that description searches for it again.
C6_FailureIsNotCached ==
    [][\A i \in 1..Len(tasks) :
          /\ SearchFails(i) =>
                /\ tasks'[i].result = Unknown
                /\ merchant_cache' = merchant_cache
                /\ tasks[i].description \notin DOMAIN merchant_cache'
          /\ (/\ pc = "enrich" /\ pc' = "enrich"
              /\ tasks[i].st = "new" /\ tasks'[i].st # "new"
              /\ tasks[i].description \notin DOMAIN merchant_cache) =>
                tasks'[i].st \in {"in_flight", "waiting"}]_vars

\* A description whose search failed in an earlier batch (its persisted row
\* says "Unknown") is being searched for again.
C6_Witness ==
    /\ pc = "enrich"
    /\ \E i \in 1..Len(tasks) :
          /\ tasks[i].st = "in_flight"
          /\ \E k \in 1..Len(transactions) :
                /\ transactions[k].description = tasks[i].description
                /\ transactions[k].enriched_info = Unknown

\* C7: when the indexer has run to its end, the collection holds one record
\* per row of the transactions table, in number and by id; a rebuild after
\* more rows were appended holds the rows of the table, not those plus the
\* records of the previous build.
C7_IndexMatchesTable ==
    pc = "init_agent" =>
        /\ qdrant.exists
        /\ Len(qdrant.points) = Len(transactions)
        /\ \A k \in 1..Len(transactions) :
              Cardinality({i \in 1..Len(qdrant.points) :
                              qdrant.points[i].id = transactions[k].id}) = 1

\* A rebuild over a table that grew since the previous build has completed.
C7_Witness ==
    /\ pc = "init_agent"
    /\ prev_count > 0
    /\ Len(qdrant.points) > prev_count
    /\ Len(qdrant.points) = Len(transactions)

\* C8: the indexer run over a store with no transactions raises the
\* empty-corpus error, leaves the collection as it was and does not make the
\* session chat-ready.
C8_EmptyCorpusGuard ==
    [][(pc = "sync" /\ transactions = << >>) =>
          /\ last_error' = EmptyCorpusError
          /\ pc' = "idle"
          /\ qdrant' = qdrant
          /\ agent' = agent]_vars

\* A step in which _ingest_csv raises.
IngestFails == pc \in {"map", "write"} /\ last_error' # NoError

\* C9 as stated: when the ingestion of a file fails, the loop goes on to the
\* files listed after it.
C9_OtherFilesStillIngested ==
    [][(IngestFails /\ file_idx < Len(csv_paths)) =>
          pc' = "map" /\ file_idx' = file_idx + 1]_vars

\* C9 amended: a failing file ends the whole setup_session call: the files
\* listed after it are not ingested, the indexer and the agent set-up do not
\* run; the rows of the files ingested before it stay in the table.
C9_FailureEndsSession ==
    [][IngestFails =>
          /\ pc' = "idle"
          /\ aborted'.ingested = file_idx - 1
          /\ aborted'.skipped = Len(csv_paths) - file_idx
          /\ transactions' = transactions
          /\ qdrant' = qdrant
          /\ agent' = agent]_vars

\* A call has ended at a failing file with a file ingested before it and a
\* file left after it.
C9_Witness ==
    /\ pc = "idle"
    /\ aborted.ingested > 0
    /\ aborted.skipped > 0
    /\ Len(transactions) > 0

\* The two checks of the tool, as the interface states them: trimmed and
\* upper-cased, the query starts with SELECT or PRAGMA and holds none of the
\* eight keywords anywhere.
PassesChecks(q) ==
    LET u == Upper(Strip(q))
    IN /\ StartsWith(u, KwSelect) \/ StartsWith(u, KwPragma)
       /\ \A word \in {KwInsert, KwUpdate, KwDelete, KwDrop, KwAlter, KwCreate,
                       KwReplace, KwTruncate} : ~Contains(u, word)

\* C2: no query_database call changes the transactions table; a query is
\* executed exactly when it passes the two checks, and every other query gets
\* one of the two error strings back, without being executed and without an
\* exception.
C2_ReadOnlyTool ==
    [][sql_pc = "called" =>
          /\ server_db' = server_db
          /\ reply'.executed <=> PassesChecks(query)
          /\ ~PassesChecks(query) =>
                /\ reply'.returned \in {OnlySelectError, ForbiddenError}
                /\ reply'.raised = None]_vars

\* A DROP TABLE statement was sent against a table with rows and was turned
\* away; the rows are still there.
C2_Witness ==
    /\ sql_pc = "idle"
    /\ reply.statement = "DROP"
    /\ ~reply.executed
    /\ reply.returned = OnlySelectError
    /\ server_db.exists
    /\ Len(server_db.rows) = 2

\* C10: query_database never lets an exception out: an executed query that
\* fails gives an error string, one that succeeds with no rows gives "No
\* results found", which is none of the error strings.
C10_NeverRaises ==
    /\ reply.raised = None
    /\ reply.executed => reply.returned \in {SqliteError, NoResultsFound, ResultRows}
    /\ NoResultsFound \notin {OnlySelectError, ForbiddenError, SqliteError}

\* The lookups of the current batch that hold a slot.
InFlight == {i \in DOMAIN tasks : tasks[i].st = "in_flight"}

TaskSt(i) == IF i \in DOMAIN tasks THEN tasks[i].st ELSE None

\* C11: at every moment at most 5 lookups are in flight, each holding one of
\* the semaphore's 5 slots, and a lookup that waits for a slot eventually
\* gets one (every search that was started returns or raises).
C11_BoundedLookups ==
    /\ [](/\ Cardinality(InFlight) <= 5
          /\ sem + Cardinality(InFlight) = 5)
    /\ \A i \in 1..MaxRows : (TaskSt(i) = "waiting") ~> (TaskSt(i) = "in_flight")

\* A lookup that had to wait holds a slot, a lookup of the same batch has
\* failed, and all 5 slots are taken.
C11_Witness ==
    /\ pc = "enrich"
    /\ Len(tasks) = 6
    /\ tasks[6].st = "in_flight"
    /\ \E j \in 1..5 : tasks[j].failed
    /\ Cardinality(InFlight) = 5

\* The file the for loop of setup_session is at.
CurrentFile == csv_paths[file_idx]

\* The step appends the rows of the current file, one per row of the file
\* and in the file's order, normalized under the mapping obtained for it.
WritesCurrentFile ==
    /\ pc = "write"
    /\ mapping # NoMapping
    /\ Len(transactions') = Len(transactions) + Len(ReadCsv(CurrentFile))
    /\ SubSeq(transactions', 1, Len(transactions)) = transactions
    /\ \A i \in 1..Len(ReadCsv(CurrentFile)) :
          LET row == transactions'[Len(transactions) + i]
          IN /\ row.source_file = CurrentFile
             /\ row.description = ReadCsv(CurrentFile)[i].description
             /\ row.amount = NormalizeAmount(ReadCsv(CurrentFile)[i].amount,
                                             mapping.sign_convention)

\* C12: within a file the mapping is obtained before any row is normalized
\* and written; the loop moves to the next file's mapping only by the step
\* that writes the current file; the indexer starts only after the write of
\* the last file; the agent is set up only after the indexer has rebuilt the
\* collection from the whole table.
C12_PipelineOrder ==
    [][/\ pc = "map" => mapping = NoMapping /\ standard_df = << >>
       /\ pc \in {"map", "enrich", "write"} => file_idx \in 1..Len(csv_paths)
       /\ mapping' # mapping /\ mapping' # NoMapping =>
             pc = "map" /\ pc' = "enrich" /\ transactions' = transactions
       /\ standard_df' # << >> => mapping' # NoMapping
       /\ transactions' # transactions => WritesCurrentFile
       /\ pc # "idle" /\ pc' # "idle" /\ file_idx' # file_idx =>
             /\ WritesCurrentFile
             /\ file_idx' = file_idx + 1
       /\ pc' = "map" /\ pc # "map" =>
             \/ pc = "idle" /\ file_idx' = 1
             \/ WritesCurrentFile /\ file_idx < Len(csv_paths)
       /\ pc' = "sync" /\ pc # "sync" =>
             \/ pc = "idle" /\ csv_paths' = << >>
             \/ WritesCurrentFile /\ file_idx = Len(csv_paths)
       /\ qdrant' # qdrant => pc = "sync"
       /\ pc' = "init_agent" =>
             /\ pc = "sync"
             /\ Len(qdrant'.points) = Len(transactions)
             /\ transactions' = transactions
       /\ agent' # agent => pc = "init_agent" /\ qdrant' = qdrant]_vars

\* A call over two different files with rows has written both, rebuilt the
\* collection from them and stands at the agent set-up.
C12_Witness ==
    /\ pc = "init_agent"
    /\ Len(csv_paths) = 2
    /\ csv_paths[1] # csv_paths[2]
    /\ ReadCsv(csv_paths[1]) # << >>
    /\ ReadCsv(csv_paths[2]) # << >>
    /\ transactions[1].source_file = csv_paths[1]
    /\ transactions[Len(transactions)].source_file = csv_paths[2]
    /\ Len(qdrant.points) = Len(transactions)
    /\ agent = None

\* C13: the thread only grows: every step leaves the messages it held in
\* place, and a chat call that returns puts its user message and its final
\* answer after them.
C13_ThreadGrows ==
    [][/\ Len(thread') >= Len(thread)
       /\ SubSeq(thread', 1, Len(thread)) = thread
       /\ chats' # chats /\ last_chat'.raised = None =>
             /\ Len(thread') = Len(thread) + 2
             /\ thread'[Len(thread) + 1] = UserMessage(last_chat'.query)
             /\ thread'[Len(thread) + 2].role = "assistant"
             /\ ExtractText(thread'[Len(thread) + 2].content) = last_chat'.returned]_vars

====
